---- MODULE Spec2Model ----
(***************************************************************************)
(* A model of the flashback_bot quote bot: the free-text message flow with *)
(* its per-user pending URL (src/src/bot.py), the quote store              *)
(* (src/src/database.py) and the scheduled jobs (src/src/scheduler.py).    *)
(*                                                                         *)
(* Time is counted in minutes since an epoch, in UTC.  SQLite's            *)
(* CURRENT_TIMESTAMP and datetime('now', ...) are UTC and print as         *)
(* "YYYY-MM-DD HH:MM:SS"; Python's datetime.now() is the naive local time  *)
(* and isoformat() prints it as "YYYY-MM-DDTHH:MM:SS.ffffff".  A printed   *)
(* timestamp is modelled as <<day, separator, minute of the day>>, and     *)
(* SQLite's comparison of two TEXT values as the lexicographic order.      *)
(***************************************************************************)
EXTENDS Integers, Sequences, FiniteSets, TLC

VARIABLES
    now,        \* the wall clock, minutes since the epoch (UTC)
    tz,         \* offset of the process's local time from UTC, in minutes
    users,      \* table users: a set of rows
    quotes,     \* table quotes: a set of rows
    nextId,     \* the AUTOINCREMENT sequence of quotes.id
    pending,    \* context.user_data["pending_url"] of every chat
    out,        \* what the last operation returned or replied
    hist,       \* history: the last URL-only message of every chat
    tasks,      \* the handler and the two scheduled jobs: where each stands
    returned,   \* history: how many calls of a task read each quote to return it
    calls       \* calls running as interleaved coroutines: where each stands

vars == <<now, tz, users, quotes, nextId, pending, out, hist, tasks, returned,
          calls>>

----------------------------------------------------------------------------
(* Bounds of the model *)

MaxQuotes == 2        \* rows ever inserted into quotes in one behaviour
MaxMinutes == 6       \* minutes the clock runs in the message flow
MaxShown == 4         \* showings of quotes while the days pass
MaxStoreShown == 1    \* showings of quotes among the store's operations
MaxTaskShown == 2     \* showings of quotes already counted when a task selects
MaxDays == 31         \* days the clock runs while quotes are selected
MaxFairShown == 4      \* showings of quotes while /random is repeated
MaxJobShown == 2      \* showings of quotes already counted when a job selects
MaxLastQuotes == 11   \* quotes one user saves before listing the last ones
DIGEST_COUNT == 2     \* config.DIGEST_COUNT, the quotes of one digest: configured

(* Program constants *)

PENDING_URL_TIMEOUT == 5    \* minutes
DuplicateMinutes == 1       \* is_duplicate(minutes=1)
SepSpace == 32              \* ' ' between date and time in SQLite's text
SepT == 84                  \* 'T' between date and time in isoformat()
RecentDays7 == 7            \* datetime('now', '-7 days')
RecentDays30 == 30          \* datetime('now', '-30 days')
LastDefault == 5            \* /last without an argument
LastCap == 10               \* /last n: min(n, 10)
SearchLimit == 10           \* search_quotes: LIMIT 10

MinutesPerHour == 6 * 10
MinutesPerDay == 24 * MinutesPerHour

ChatIds == {1, 2}
None == "None"              \* Python's None, SQL's NULL, in a string field
NullTs == <<>>              \* SQL's NULL in a timestamp column
NoText == <<>>              \* parsed.quote is None: no quote text
NoTime == 0 - 1             \* history: no such moment
Urls == {"https://a.example"}
Texts == {<<"a">>, <<"b", "a">>}
TagLists == {<<>>, <<"wisdom">>}

UserName(u) == IF u = 1 THEN "ann" ELSE "bob"

----------------------------------------------------------------------------
(* Timestamps as text *)

SqlTimestamp(t) == <<t \div MinutesPerDay, SepSpace, t % MinutesPerDay>>

IsoFormat(t) == <<t \div MinutesPerDay, SepT, t % MinutesPerDay>>

\* a < b for two printed timestamps, compared as SQLite compares TEXT
LexLess(a, b) ==
    \/ a[1] < b[1]
    \/ a[1] = b[1] /\ a[2] < b[2]
    \/ a[1] = b[1] /\ a[2] = b[2] /\ a[3] < b[3]

LexGeq(a, b) == ~LexLess(a, b)

\* datetime.now(): the naive local time
LocalNow == now + tz

----------------------------------------------------------------------------
(* src.metadata.fetch_metadata and src.parser.parse_message are not among  *)
(* the sources: a fetch yields some title/author/domain, each possibly     *)
(* None, and a parsed message is a url, a quote and a list of tags.        *)

NoMeta == [title |-> None, author |-> None, domain |-> None]

fetch_metadata ==
    { [title |-> "Title", author |-> "Author", domain |-> "a.example"],
      NoMeta }

parse_message(urls, texts, taglists) ==
    [url : urls \cup {None}, quote : texts \cup {NoText}, tags : taglists]

----------------------------------------------------------------------------
(* Users *)

UserRow(chat_id, username, first_name) ==
    [chat_id |-> chat_id, username |-> username, first_name |-> first_name,
     digest_enabled |-> 1, daily_quote_enabled |-> 1]

\* UPDATE users SET username = ?, first_name = ? WHERE chat_id = ?
UsersUpdate(tbl, chat_id, username, first_name) ==
    { IF r.chat_id = chat_id
      THEN [r EXCEPT !.username = username, !.first_name = first_name]
      ELSE r : r \in tbl }

\* a slip: the users table without its UNIQUE constraint on chat_id
UsersInsert_nokey(tbl, chat_id, username, first_name) ==
    tbl \cup {UserRow(chat_id, username, first_name)}

\* INSERT INTO users: chat_id is UNIQUE, a second row of a chat id is
\* refused (IntegrityError) and the table stays as it is
UsersInsert(tbl, chat_id, username, first_name) ==
    IF \E r \in tbl : r.chat_id = chat_id THEN tbl
    ELSE tbl \cup {UserRow(chat_id, username, first_name)}

\* the users table after register_user(chat_id, username, first_name)
register_user(tbl, chat_id, username, first_name) ==
    IF \E r \in tbl : r.chat_id = chat_id
    THEN UsersUpdate(tbl, chat_id, username, first_name)
    ELSE UsersInsert(tbl, chat_id, username, first_name)

\* register_user called by coroutines that interleave at its awaits
CallIds == {1, 2}

IdleCall == [pc |-> "idle"]

UserNames == {"ann", "bob"}

\* SELECT chat_id FROM users WHERE chat_id = ?  (exists)
RegSelect(c, chat_id, name) ==
    /\ calls[c].pc = "idle"
    /\ calls' = [calls EXCEPT ![c] =
                    [pc |-> "selected", chat_id |-> chat_id, name |-> name,
                     exists |-> \E r \in users : r.chat_id = chat_id]]
    /\ out' = [op |-> "register_select", user |-> chat_id, reply |-> None]
    /\ UNCHANGED <<now, tz, users, quotes, nextId, pending, hist, tasks,
                   returned>>

\* the UPDATE or the INSERT, the commit and the return of register_user
RegWrite(c) ==
    LET k == calls[c]
        taken == \E r \in users : r.chat_id = k.chat_id
    IN  /\ k.pc = "selected"
        /\ users' = IF k.exists
                     THEN UsersUpdate(users, k.chat_id, k.name, k.name)
                     ELSE UsersInsert(users, k.chat_id, k.name, k.name)
        /\ out' = [op |-> "register_user", user |-> k.chat_id, call |-> c,
                   name |-> k.name, saw |-> k.exists,
                   reply |-> IF k.exists THEN "False"
                             ELSE IF taken THEN "IntegrityError"
                             ELSE "True"]
        /\ calls' = [calls EXCEPT ![c] = IdleCall]
        /\ UNCHANGED <<now, tz, quotes, nextId, pending, hist, tasks,
                       returned>>

ensure_registered(u) == users' = register_user(users, u, UserName(u), UserName(u))

----------------------------------------------------------------------------
(* Quotes *)

Row(id) == CHOOSE r \in quotes : r.id = id

\* a slip: a new quote is stamped as shown when it is saved
NewQuote_seen(id, user_id, text, url, title, author, domain, tags) ==
    [id |-> id, user_id |-> user_id, text |-> text, url |-> url,
     source_title |-> title, source_author |-> author,
     source_domain |-> domain, tags |-> tags,
     is_favorite |-> 0, times_shown |-> 0, last_shown |-> SqlTimestamp(now),
     created_at |-> SqlTimestamp(now)]

\* the row save_quote inserts
NewQuote(id, user_id, text, url, title, author, domain, tags) ==
    [id |-> id, user_id |-> user_id, text |-> text, url |-> url,
     source_title |-> title, source_author |-> author,
     source_domain |-> domain, tags |-> tags,
     is_favorite |-> 0, times_shown |-> 0, last_shown |-> NullTs,
     created_at |-> SqlTimestamp(now)]

is_duplicate(tbl, user_id, text) ==
    LET cutoff == LocalNow - DuplicateMinutes
    IN  Cardinality({ r \in tbl : /\ r.user_id = user_id
                                  /\ r.text = text
                                  /\ LexGeq(r.created_at, IsoFormat(cutoff)) }) > 0

----------------------------------------------------------------------------
(* The pending URL *)

NoPending == [url |-> None, metadata |-> NoMeta, timestamp |-> NoTime]

\* a slip: the time limit counted in hours
PendingExpired_hours(p) ==
    LocalNow - p.timestamp > PENDING_URL_TIMEOUT * MinutesPerHour

PendingExpired(p) == LocalNow - p.timestamp > PENDING_URL_TIMEOUT

\* a slip: the entry expires when exactly 5 minutes old
get_pending_url_early(p) ==
    IF p.url = None THEN NoPending
    ELSE IF LocalNow - p.timestamp >= PENDING_URL_TIMEOUT THEN NoPending
    ELSE p

\* what get_pending_url returns: NoPending stands for None
get_pending_url(p) ==
    IF p.url = None THEN NoPending
    ELSE IF PendingExpired(p) THEN NoPending
    ELSE p

\* user_data["pending_url"] after get_pending_url: an expired entry is popped
AfterGetPendingUrl(p) ==
    IF p.url # None /\ PendingExpired(p) THEN NoPending ELSE p

set_pending_url(url, metadata) ==
    [url |-> url, metadata |-> metadata, timestamp |-> LocalNow]

clear_pending_url(p) == NoPending

\* history of a chat: its last URL-only message (url, metadata, at), whether
\* /cancel came since, and whether a quote-bearing message was saved since
NoHist == [url |-> None, metadata |-> NoMeta, at |-> NoTime,
           cancelled |-> FALSE, used |-> FALSE]

----------------------------------------------------------------------------
(* handle_message *)

MsgKind(p) ==
    IF p.url # None /\ p.quote = NoText THEN "url_only"
    ELSE IF p.quote = NoText THEN "empty"
    ELSE IF p.url = None THEN "quote_only"
    ELSE "url_and_quote"

MsgOut(u, p, reply, id) ==
    [op |-> "handle_message", user |-> u, kind |-> MsgKind(p),
     reply |-> reply, id |-> id]

\* what a URL-only message leaves in out; replaced is history, the URL that
\* was pending when the message came
UrlOut(u, p) ==
    [op |-> "handle_message", user |-> u, kind |-> MsgKind(p),
     reply |-> "got_link", id |-> 0, replaced |-> pending[u].url]

\* a slip: a pending URL is kept when another URL-only message comes
HandleUrlOnly_first(u, p, m) ==
    /\ p.url # None /\ p.quote = NoText
    /\ ensure_registered(u)
    /\ pending' = IF pending[u].url # None THEN pending
                  ELSE [pending EXCEPT ![u] = set_pending_url(p.url, m)]
    /\ hist' = [hist EXCEPT ![u] = [url |-> p.url, metadata |-> m, at |-> now,
                                    cancelled |-> FALSE, used |-> FALSE]]
    /\ out' = UrlOut(u, p)
    /\ UNCHANGED <<now, tz, calls, quotes, nextId, tasks, returned>>

\* a URL alone: remember it and ask for the quote
HandleUrlOnly(u, p, m) ==
    /\ p.url # None /\ p.quote = NoText
    /\ ensure_registered(u)
    /\ pending' = [pending EXCEPT ![u] = set_pending_url(p.url, m)]
    /\ hist' = [hist EXCEPT ![u] = [url |-> p.url, metadata |-> m, at |-> now,
                                    cancelled |-> FALSE, used |-> FALSE]]
    /\ out' = UrlOut(u, p)
    /\ UNCHANGED <<now, tz, calls, quotes, nextId, tasks, returned>>

\* neither a URL nor a quote
HandleNoQuote(u, p) ==
    /\ p.url = None /\ p.quote = NoText
    /\ ensure_registered(u)
    /\ out' = MsgOut(u, p, "no_quote", 0)
    /\ UNCHANGED <<now, tz, calls, quotes, nextId, pending, hist, tasks, returned>>

\* the quote was saved recently
HandleDuplicate(u, p) ==
    /\ p.quote # NoText
    /\ is_duplicate(quotes, u, p.quote)
    /\ ensure_registered(u)
    /\ out' = MsgOut(u, p, "duplicate", 0)
    /\ UNCHANGED <<now, tz, calls, quotes, nextId, pending, hist, tasks, returned>>

\* the url and the metadata handle_message saves with the quote
QuoteSource(u, p, m) ==
    IF p.url # None
    THEN [url |-> p.url, metadata |-> m]
    ELSE LET got == get_pending_url(pending[u])
         IN  IF got.url # None
             THEN [url |-> got.url, metadata |-> got.metadata]
             ELSE [url |-> None, metadata |-> NoMeta]

\* a slip: a message with a URL of its own leaves the pending URL alone
PendingAfterSave_keep(u, p) ==
    IF p.url # None
    THEN pending[u]
    ELSE LET got == get_pending_url(pending[u])
         IN  IF got.url # None
             THEN clear_pending_url(pending[u])
             ELSE AfterGetPendingUrl(pending[u])

\* a slip: the pending URL is read and left in place
PendingAfterSave_stay(u, p) == pending[u]

\* user_data["pending_url"] after handle_message has looked for a source
PendingAfterSave(u, p) ==
    IF p.url # None
    THEN clear_pending_url(pending[u])
    ELSE LET got == get_pending_url(pending[u])
         IN  IF got.url # None
             THEN clear_pending_url(pending[u])
             ELSE AfterGetPendingUrl(pending[u])

\* the quote is new: it is saved with its source
SaveQuote(u, p, m) ==
    /\ p.quote # NoText
    /\ ~is_duplicate(quotes, u, p.quote)
    /\ tasks["handler"].pc = "idle"
    /\ ensure_registered(u)
    /\ LET src == QuoteSource(u, p, m)
       IN  quotes' = quotes \cup
               {NewQuote(nextId, u, p.quote, src.url, src.metadata.title,
                         src.metadata.author, src.metadata.domain, p.tags)}
    /\ nextId' = nextId + 1
    /\ pending' = [pending EXCEPT ![u] = PendingAfterSave(u, p)]
    /\ hist' = [hist EXCEPT ![u].used = (hist[u].url # None)]
    /\ out' = MsgOut(u, p, "saved", nextId)
    /\ UNCHANGED <<now, tz, calls, tasks, returned>>

\* the rows ever inserted are capped to keep the model finite
HandleSave(u, p, m) == nextId <= MaxQuotes /\ SaveQuote(u, p, m)

handle_message(u, p, m) ==
    \/ HandleUrlOnly(u, p, m)
    \/ HandleNoQuote(u, p)
    \/ HandleDuplicate(u, p)
    \/ HandleSave(u, p, m)

\* handle_message for a quote-only message, run as a coroutine that other
\* coroutines interleave with at its awaits. Calls in flight count against
\* the cap on saved quotes.
InFlight == Cardinality({ c \in CallIds : calls[c].pc # "idle" })

\* up to the answer of await is_duplicate
MsgCheck(c, u, p) ==
    /\ calls[c].pc = "idle"
    /\ p.url = None /\ p.quote # NoText
    /\ nextId + InFlight <= MaxQuotes
    /\ ensure_registered(u)
    /\ IF is_duplicate(quotes, u, p.quote)
       THEN /\ out' = MsgOut(u, p, "duplicate", 0)
            /\ UNCHANGED calls
       ELSE /\ out' = [op |-> "msg_check", user |-> u, reply |-> None]
            /\ calls' = [calls EXCEPT ![c] = [pc |-> "checked", user |-> u,
                                              p |-> p]]
    /\ UNCHANGED <<now, tz, quotes, nextId, pending, hist, tasks, returned>>

\* get_pending_url and clear_pending_url, with no await between them, up to
\* await save_quote
MsgTake(c) ==
    LET k == calls[c]
        got == IF k.pc = "checked" THEN get_pending_url(pending[k.user])
               ELSE NoPending
    IN  /\ k.pc = "checked"
        /\ calls' = [calls EXCEPT ![c] =
                        [pc |-> "saving", user |-> k.user, p |-> k.p,
                         url |-> got.url, metadata |-> got.metadata]]
        /\ pending' = [pending EXCEPT ![k.user] = PendingAfterSave(k.user, k.p)]
        /\ hist' = [hist EXCEPT ![k.user].used = @ \/ got.url # None]
        /\ out' = [op |-> "msg_take", user |-> k.user, reply |-> None,
                   call |-> c, url |-> got.url]
        /\ UNCHANGED <<now, tz, users, quotes, nextId, tasks, returned>>

\* the INSERT of save_quote and the reply
MsgSave(c) ==
    LET k == calls[c]
    IN  /\ k.pc = "saving"
        /\ quotes' = quotes \cup
               {NewQuote(nextId, k.user, k.p.quote, k.url, k.metadata.title,
                         k.metadata.author, k.metadata.domain, k.p.tags)}
        /\ nextId' = nextId + 1
        /\ calls' = [calls EXCEPT ![c] = IdleCall]
        /\ out' = MsgOut(k.user, k.p, "saved", nextId)
        /\ UNCHANGED <<now, tz, users, pending, hist, tasks, returned>>

\* /cancel
cancel_command(u) ==
    /\ ensure_registered(u)
    /\ pending' = [pending EXCEPT ![u] =
                      IF get_pending_url(pending[u]).url # None
                      THEN clear_pending_url(pending[u])
                      ELSE AfterGetPendingUrl(pending[u])]
    /\ out' = [op |-> "cancel", user |-> u,
               reply |-> IF get_pending_url(pending[u]).url # None
                         THEN "cleared" ELSE "nothing"]
    /\ hist' = [hist EXCEPT ![u].cancelled = (hist[u].url # None)]
    /\ UNCHANGED <<now, tz, calls, quotes, nextId, tasks, returned>>

----------------------------------------------------------------------------
(* The quote store: every function of database.py as the rows it reads and *)
(* the table it leaves, given the table tbl.                               *)

RECURSIVE Perms(_)
Perms(S) ==
    IF S = {} THEN {<<>>}
    ELSE UNION { { <<x>> \o q : q \in Perms(S \ {x}) } : x \in S }

\* the orders in which ORDER BY may deliver the rows S: ties fall either way
Ordered(S, Leq(_, _)) ==
    LET RECURSIVE From(_)
        From(T) ==
            IF T = {} THEN {<<>>}
            ELSE UNION { { <<a>> \o q : q \in From(T \ {a}) } :
                         a \in { b \in T : \A c \in T : Leq(b, c) } }
    IN  From(S)

Min(a, b) == IF a < b THEN a ELSE b

\* LIMIT n: a negative n is no limit in SQLite
Limit(q, n) == IF n < 0 THEN q ELSE SubSeq(q, 1, Min(n, Len(q)))

Ids(q) == [i \in 1..Len(q) |-> q[i].id]

IdSet(q) == { q[i].id : i \in 1..Len(q) }

\* WHERE user_id = ?
OwnRows(tbl, user_id) == { r \in tbl : r.user_id = user_id }

\* ORDER BY created_at DESC
NewestFirst(a, b) == ~LexLess(a.created_at, b.created_at)

\* the rows get_quote_by_id finds: none or one
get_quote_by_id(tbl, user_id, quote_id) ==
    { r \in tbl : r.id = quote_id /\ r.user_id = user_id }

\* a slip: DELETE FROM quotes WHERE id = ?
DeletedRows_any(tbl, user_id, quote_id) == { r \in tbl : r.id = quote_id }

\* the rows DELETE FROM quotes WHERE id = ? AND user_id = ? removes
DeletedRows(tbl, user_id, quote_id) ==
    { r \in tbl : r.id = quote_id /\ r.user_id = user_id }

\* the table after delete_quote
delete_quote(tbl, user_id, quote_id) == tbl \ DeletedRows(tbl, user_id, quote_id)

\* what delete_quote returns: cursor.rowcount > 0
delete_quote_ret(tbl, user_id, quote_id) ==
    Cardinality(DeletedRows(tbl, user_id, quote_id)) > 0

\* a slip: the quote is looked up and updated by its id alone
toggle_favorite_any(tbl, user_id, quote_id) ==
    { IF r.id = quote_id
      THEN [r EXCEPT !.is_favorite = IF r.is_favorite # 0 THEN 0 ELSE 1]
      ELSE r : r \in tbl }

\* a slip: the flag is set, not toggled
toggle_favorite_set(tbl, user_id, quote_id) ==
    { IF r.id = quote_id /\ r.user_id = user_id
      THEN [r EXCEPT !.is_favorite = 1] ELSE r : r \in tbl }

\* the rows toggle_favorite selects: none or one
FavoriteRows(tbl, user_id, quote_id) ==
    { r \in tbl : r.id = quote_id /\ r.user_id = user_id }

\* the table after toggle_favorite
toggle_favorite(tbl, user_id, quote_id) ==
    IF FavoriteRows(tbl, user_id, quote_id) = {} THEN tbl
    ELSE LET row == CHOOSE r \in FavoriteRows(tbl, user_id, quote_id) : TRUE
             new_status == IF row.is_favorite # 0 THEN 0 ELSE 1
         IN  { IF r.id = quote_id /\ r.user_id = user_id
               THEN [r EXCEPT !.is_favorite = new_status] ELSE r : r \in tbl }

\* what toggle_favorite returns: "None", or the new status
toggle_favorite_ret(tbl, user_id, quote_id) ==
    IF FavoriteRows(tbl, user_id, quote_id) = {} THEN None
    ELSE LET row == CHOOSE r \in FavoriteRows(tbl, user_id, quote_id) : TRUE
         IN  IF row.is_favorite # 0 THEN "False" ELSE "True"

\* the CASE of get_random_quotes' ORDER BY
Bucket(r) ==
    IF r.last_shown = NullTs THEN 0
    ELSE IF LexLess(r.last_shown, SqlTimestamp(now - RecentDays30 * MinutesPerDay)) THEN 1
    ELSE IF LexLess(r.last_shown, SqlTimestamp(now - RecentDays7 * MinutesPerDay)) THEN 2
    ELSE 3

\* a slip: ORDER BY CASE ... END, times_shown DESC, RANDOM()
SelectionOrder_desc(a, b) ==
    \/ Bucket(a) < Bucket(b)
    \/ Bucket(a) = Bucket(b) /\ a.times_shown >= b.times_shown

\* a slip: ORDER BY CASE ... END, RANDOM()
SelectionOrder_bucket(a, b) == Bucket(a) <= Bucket(b)

\* ORDER BY CASE ... END, times_shown ASC, RANDOM()
SelectionOrder(a, b) ==
    \/ Bucket(a) < Bucket(b)
    \/ Bucket(a) = Bucket(b) /\ a.times_shown <= b.times_shown

\* the lists of rows get_random_quotes(user_id, n) may read
SelectRandom(tbl, user_id, n) ==
    { Limit(q, n) : q \in Ordered(OwnRows(tbl, user_id), SelectionOrder) }

\* a slip: the counter is not incremented
MarkShown_noinc(tbl, q) ==
    { IF r.id \in IdSet(q)
      THEN [r EXCEPT !.last_shown = SqlTimestamp(now)]
      ELSE r : r \in tbl }

\* a slip: the counter is written from the value that was read
MarkShown_stale(tbl, q) ==
    { IF r.id \in IdSet(q)
      THEN LET read == CHOOSE i \in 1..Len(q) : q[i].id = r.id
           IN  [r EXCEPT !.last_shown = SqlTimestamp(now),
                         !.times_shown = q[read].times_shown + 1]
      ELSE r : r \in tbl }

\* the table after get_random_quotes has read the rows q: UPDATE quotes SET
\* last_shown = CURRENT_TIMESTAMP, times_shown = times_shown + 1
\* WHERE id IN (the ids of q)
MarkShown(tbl, q) ==
    { IF r.id \in IdSet(q)
      THEN [r EXCEPT !.last_shown = SqlTimestamp(now), !.times_shown = @ + 1]
      ELSE r : r \in tbl }

\* the lists get_last_quotes(user_id, n) may return
get_last_quotes(tbl, user_id, n) ==
    { Limit(q, n) : q \in Ordered(OwnRows(tbl, user_id), NewestFirst) }

get_quote_count(tbl, user_id) == Cardinality(OwnRows(tbl, user_id))

\* text LIKE '%keyword%'
Contains(text, keyword) ==
    \E i \in 0..(Len(text) - Len(keyword)) :
        SubSeq(text, i + 1, i + Len(keyword)) = keyword

\* the lists search_quotes(user_id, keyword) may return
search_quotes(tbl, user_id, keyword) ==
    { Limit(q, SearchLimit) :
        q \in Ordered({ r \in OwnRows(tbl, user_id) : Contains(r.text, keyword) },
                      NewestFirst) }

\* the lists export_all_quotes(user_id) may serialize
export_all_quotes(tbl, user_id) == Ordered(OwnRows(tbl, user_id), NewestFirst)

----------------------------------------------------------------------------
(* The commands.  A handler runs to its end before the next update is      *)
(* handled: create_bot builds the Application without concurrent updates.  *)

CmdOut(op, u, reply, arg, q, n) ==
    [op |-> op, user |-> u, reply |-> reply, arg |-> arg, ids |-> Ids(q), n |-> n]

RECURSIVE TotalShown(_)
TotalShown(tbl) ==
    IF tbl = {} THEN 0
    ELSE LET r == CHOOSE x \in tbl : TRUE
         IN  r.times_shown + TotalShown(tbl \ {r})

\* the showings of one behaviour are capped to keep the model finite
CanShow(cap) == TotalShown(quotes) < cap

\* /random
random_command(u) ==
    /\ ensure_registered(u)
    /\ \E q \in SelectRandom(quotes, u, 1) :
          /\ quotes' = MarkShown(quotes, q)
          /\ out' = CmdOut("random", u, IF q = <<>> THEN "no_quotes" ELSE "quote",
                           1, q, Len(q))
    /\ UNCHANGED <<now, tz, calls, nextId, pending, hist, tasks, returned>>

\* /digest: send_digest_to_user
digest_command(u) ==
    /\ ensure_registered(u)
    /\ \E q \in SelectRandom(quotes, u, DIGEST_COUNT) :
          /\ quotes' = MarkShown(quotes, q)
          /\ out' = CmdOut("digest", u, IF q = <<>> THEN "no_quotes" ELSE "digest",
                           DIGEST_COUNT, q, get_quote_count(quotes', u))
    /\ UNCHANGED <<now, tz, calls, nextId, pending, hist, tasks, returned>>

\* the n of /last: no argument, an argument that is no integer, an integer
LastArgs == {[given |-> FALSE, int |-> FALSE, val |-> 0],
             [given |-> TRUE, int |-> FALSE, val |-> 0]}
            \cup [given : {TRUE}, int : {TRUE}, val : {1, LastCap + 1}]

\* /last with an integer below, at and far above the cap
LastArgsInt == [given : {TRUE}, int : {TRUE}, val : {0 - 1, 0, LastCap, 2 * LastCap}]

LastN(arg) ==
    IF arg.given /\ arg.int THEN Min(arg.val, LastCap) ELSE LastDefault

\* /last [n]
last_command(u, arg) ==
    /\ ensure_registered(u)
    /\ \E q \in get_last_quotes(quotes, u, LastN(arg)) :
          out' = CmdOut("last", u, IF q = <<>> THEN "no_quotes" ELSE "list",
                        LastN(arg), q, Len(q))
    /\ UNCHANGED <<now, tz, calls, quotes, nextId, pending, hist, tasks, returned>>

\* /search <keyword>
search_command(u, keyword) ==
    /\ ensure_registered(u)
    /\ \E q \in search_quotes(quotes, u, keyword) :
          out' = CmdOut("search", u, IF q = <<>> THEN "none_found" ELSE "found",
                        0, q, Len(q))
    /\ UNCHANGED <<now, tz, calls, quotes, nextId, pending, hist, tasks, returned>>

\* /fav <id>
fav_command(u, quote_id) ==
    /\ ensure_registered(u)
    /\ quotes' = toggle_favorite(quotes, u, quote_id)
    /\ out' = CmdOut("fav", u,
                     LET result == toggle_favorite_ret(quotes, u, quote_id)
                     IN  IF result = None THEN "not_found"
                         ELSE IF result = "True" THEN "added" ELSE "removed",
                     quote_id, <<>>, 0)
    /\ UNCHANGED <<now, tz, calls, nextId, pending, hist, tasks, returned>>

\* /delete <id>: looked up with get_quote_by_id, then deleted
delete_command(u, quote_id) ==
    /\ ensure_registered(u)
    /\ LET quote == get_quote_by_id(quotes, u, quote_id)
       IN  IF quote = {}
           THEN /\ quotes' = quotes
                /\ out' = CmdOut("delete", u, "not_found", quote_id, <<>>, 0)
           ELSE /\ quotes' = delete_quote(quotes, u, quote_id)
                /\ out' = CmdOut("delete", u,
                                 IF delete_quote_ret(quotes, u, quote_id)
                                 THEN "deleted" ELSE "failed",
                                 quote_id, <<>>, 0)
    /\ UNCHANGED <<now, tz, calls, nextId, pending, hist, tasks, returned>>

\* /fav and /delete without an argument, or with one that is no integer
usage_command(u, op, reply) ==
    /\ ensure_registered(u)
    /\ out' = CmdOut(op, u, reply, 0, <<>>, 0)
    /\ UNCHANGED <<now, tz, calls, quotes, nextId, pending, hist, tasks, returned>>

\* /export
export_command(u) ==
    /\ ensure_registered(u)
    /\ \E q \in export_all_quotes(quotes, u) :
          out' = CmdOut("export", u,
                        IF get_quote_count(quotes, u) = 0 THEN "no_quotes"
                        ELSE "document",
                        0, q, get_quote_count(quotes, u))
    /\ UNCHANGED <<now, tz, calls, quotes, nextId, pending, hist, tasks, returned>>

----------------------------------------------------------------------------
(* Tasks.  The handler of an update and the two jobs of the scheduler run  *)
(* on one event loop and give way to each other at every await: a call of  *)
(* get_random_quotes is a SELECT and, later, an UPDATE with its commit.    *)

TaskIds == {"handler", "weekly", "daily"}

JobIds == {"weekly", "daily"}

\* batch and done are history: the users the running job read, and those of
\* them it has dealt with
IdleTask == [pc |-> "idle", todo |-> <<>>, rows |-> <<>>,
             batch |-> {}, done |-> {}]

\* the n a task passes to get_random_quotes
TaskCount(t) == IF t = "weekly" THEN DIGEST_COUNT ELSE 1

\* get_users_for_digest, get_users_for_daily_quote: the chats to serve
JobUsers(t) ==
    { r.chat_id : r \in { x \in users :
          IF t = "weekly" THEN x.digest_enabled = 1
          ELSE x.daily_quote_enabled = 1 } }

Count(q, id) == Cardinality({ i \in 1..Len(q) : q[i].id = id })

\* send_digest_to_all, send_daily_quote_to_all: the job reads its users
JobStart(t) ==
    /\ tasks[t].pc = "idle"
    /\ \E todo \in Perms(JobUsers(t)) :
          tasks' = [tasks EXCEPT ![t] =
                       IF todo = <<>> THEN IdleTask
                       ELSE [pc |-> "select", todo |-> todo, rows |-> <<>>,
                             batch |-> JobUsers(t), done |-> {}]]
    /\ out' = [op |-> "job_start", user |-> 0, reply |-> None]
    /\ UNCHANGED <<now, tz, calls, users, quotes, nextId, pending, hist, returned>>

\* get_random_quotes up to its fetchall, for the head of todo
TaskSelect(t) ==
    /\ tasks[t].pc = "select"
    /\ \E q \in SelectRandom(quotes, Head(tasks[t].todo), TaskCount(t)) :
          /\ tasks' = [tasks EXCEPT ![t].pc = "update", ![t].rows = q]
          /\ returned' = [id \in DOMAIN returned |-> returned[id] + Count(q, id)]
    /\ out' = [op |-> "select", user |-> Head(tasks[t].todo), reply |-> None]
    /\ UNCHANGED <<now, tz, calls, users, quotes, nextId, pending, hist>>

\* a slip: an exception ends the loop over the users
AfterUser_abort(t, ok) ==
    IF ok /\ Tail(tasks[t].todo) # <<>>
    THEN [pc |-> "select", todo |-> Tail(tasks[t].todo), rows |-> <<>>,
          batch |-> tasks[t].batch,
          done |-> tasks[t].done \cup {Head(tasks[t].todo)}]
    ELSE IdleTask

\* the task once it is through with the head of todo, with or without an
\* exception: the for loop goes on to the next user
AfterUser(t, ok) ==
    IF Tail(tasks[t].todo) # <<>>
    THEN [pc |-> "select", todo |-> Tail(tasks[t].todo), rows |-> <<>>,
          batch |-> tasks[t].batch,
          done |-> tasks[t].done \cup {Head(tasks[t].todo)}]
    ELSE IdleTask

\* get_random_quotes raises (the store cannot be read): the exception is
\* logged and the job goes on to its next user
TaskSelectFail(t) ==
    /\ tasks[t].pc = "select"
    /\ tasks' = [tasks EXCEPT ![t] = AfterUser(t, FALSE)]
    /\ out' = [op |-> t, user |-> Head(tasks[t].todo), reply |-> "failed",
               ids |-> <<>>, shown |-> <<>>]
    /\ UNCHANGED <<now, tz, calls, users, quotes, nextId, pending, hist, returned>>

\* get_random_quotes from its UPDATE on, and the message that is sent; a
\* failure to send is logged and the job goes on to its next user
TaskUpdate(t, sent) ==
    /\ tasks[t].pc = "update"
    /\ quotes' = MarkShown(quotes, tasks[t].rows)
    /\ tasks' = [tasks EXCEPT ![t] = AfterUser(t, sent)]
    /\ out' = [op |-> t, user |-> Head(tasks[t].todo),
               reply |-> IF t = "daily" /\ tasks[t].rows = <<>> THEN "nothing"
                         ELSE IF sent THEN "sent" ELSE "failed",
               ids |-> Ids(tasks[t].rows),
               shown |-> [i \in 1..Len(tasks[t].rows) |->
                             tasks[t].rows[i].times_shown]]
    /\ UNCHANGED <<now, tz, calls, users, nextId, pending, hist, returned>>

\* /random, up to the fetchall of its get_random_quotes
RandomSelect(u) ==
    /\ tasks["handler"].pc = "idle"
    /\ ensure_registered(u)
    /\ \E q \in SelectRandom(quotes, u, 1) :
          /\ tasks' = [tasks EXCEPT !["handler"] =
                          [pc |-> "update", todo |-> <<u>>, rows |-> q,
                           batch |-> {}, done |-> {}]]
          /\ returned' = [id \in DOMAIN returned |-> returned[id] + Count(q, id)]
    /\ out' = [op |-> "select", user |-> u, reply |-> None]
    /\ UNCHANGED <<now, tz, calls, quotes, nextId, pending, hist>>

----------------------------------------------------------------------------
(* format_quote: a reply is a sequence of lines, a line a sequence of words
   that one space joins *)

\* Python's truth of a text column: None and the empty string are false
Truthy(v) == v # None /\ v # ""

\* a slip: the domain is appended whether or not there is an author
SourceParts_both(quote) ==
    (IF Truthy(quote.source_title) THEN <<quote.source_title>> ELSE <<>>)
    \o (IF Truthy(quote.source_author)
        THEN <<"by", quote.source_author>> ELSE <<>>)
    \o (IF Truthy(quote.source_domain)
        THEN <<"(", quote.source_domain, ")">> ELSE <<>>)

\* source_parts of format_quote
SourceParts(quote) ==
    (IF Truthy(quote.source_title) THEN <<quote.source_title>> ELSE <<>>)
    \o (IF Truthy(quote.source_author)
        THEN <<"by", quote.source_author>>
        ELSE IF Truthy(quote.source_domain)
        THEN <<"(", quote.source_domain, ")">>
        ELSE <<>>)

format_quote(quote, show_id) ==
    LET prefix == IF show_id THEN <<"[#", quote.id, "]">> ELSE <<>>
        fav == IF quote.is_favorite # 0 THEN <<"*">> ELSE <<>>
        text == <<prefix \o <<"\"", quote.text, "\"">> \o fav>>
        source_parts == SourceParts(quote)
    IN  text
        \o (IF source_parts # <<>> THEN << <<"--">> \o source_parts >> ELSE <<>>)
        \o (IF Truthy(quote.url) THEN << <<quote.url>> >> ELSE <<>>)
        \o (IF quote.tags # <<>>
            THEN << [i \in 1..Len(quote.tags) |-> <<"#", quote.tags[i]>>] >>
            ELSE <<>>)

\* the rows format_quote is given: every text column None, empty or filled
FormatInputs ==
    [id : {1}, text : {<<"a">>},
     source_title : {None, "", "Title"},
     source_author : {None, "", "Author"},
     source_domain : {None, "", "a.example"},
     url : {None} \cup Urls, tags : TagLists, is_favorite : {0, 1}]

\* one reply line is built from a row
FormatQuote(quote, show_id) ==
    /\ out' = [op |-> "format_quote", user |-> 0, reply |-> None,
               quote |-> quote, text |-> format_quote(quote, show_id)]
    /\ UNCHANGED <<now, tz, calls, users, quotes, nextId, pending, hist, tasks,
                   returned>>

----------------------------------------------------------------------------
(* The clock *)

\* the behaviours start 5 minutes before a midnight (UTC)
StartTime == 40 * MinutesPerDay - PENDING_URL_TIMEOUT

Tick(d, limit) ==
    /\ now + d <= limit
    /\ now' = now + d
    /\ out' = [op |-> "tick", user |-> 0, reply |-> None]
    /\ UNCHANGED <<tz, calls, users, quotes, nextId, pending, hist, tasks, returned>>

----------------------------------------------------------------------------
Init ==
    /\ now = StartTime
    /\ tz \in {0 - MinutesPerHour, 0}
    /\ users = {}
    /\ quotes = {}
    /\ nextId = 1
    /\ pending = [u \in ChatIds |-> NoPending]
    /\ out = [op |-> "init", user |-> 0, reply |-> None]
    /\ hist = [u \in ChatIds |-> NoHist]
    /\ tasks = [t \in TaskIds |-> IdleTask]
    /\ returned = [id \in 1..MaxQuotes |-> 0]
    /\ calls = [c \in CallIds |-> IdleCall]

\* the process runs in UTC
InitUtc == Init /\ tz = 0

\* the clock is read at the pending URL's time limit and one minute past it
MsgTick ==
    \E d \in {PENDING_URL_TIMEOUT, PENDING_URL_TIMEOUT + 1} :
        Tick(d, StartTime + MaxMinutes)

\* The message flow: URL-only, quote-only and URL-with-quote messages, /cancel
\* and the clock around the pending URL's expiry, in a process running in UTC.
Next ==
    \/ \E u \in ChatIds, p \in parse_message(Urls, {<<"a">>}, {<<>>}),
          m \in fetch_metadata :
           handle_message(u, p, m)
    \/ \E u \in ChatIds : cancel_command(u)
    \/ MsgTick

Spec == InitUtc /\ [][Next]_vars

\* The store: quotes are saved, shown, listed, searched, marked, deleted and
\* exported by two users.
StoreIds == 0..MaxQuotes

SearchWords == {<<"b">>}

NextStore ==
    \/ \E u \in ChatIds, p \in parse_message({}, Texts, {<<>>}) :
           HandleSave(u, p, NoMeta)
    \/ CanShow(MaxStoreShown) /\ \E u \in ChatIds : random_command(u)
    \/ \E u \in ChatIds, arg \in LastArgs : last_command(u, arg)
    \/ \E u \in ChatIds, keyword \in SearchWords : search_command(u, keyword)
    \/ \E u \in ChatIds, id \in StoreIds : fav_command(u, id)
    \/ \E u \in ChatIds, id \in StoreIds : delete_command(u, id)
    \/ \E u \in ChatIds : usage_command(u, "delete", "invalid")
    \/ \E u \in ChatIds : export_command(u)

SpecStore == InitUtc /\ [][NextStore]_vars

\* Duplicates: a quote is sent and sent again, minute by minute across a
\* midnight (UTC), by a process whose local time is UTC or an hour behind.
MinuteTick == Tick(1, StartTime + MaxMinutes)

NextDup ==
    \/ \E u \in ChatIds, p \in parse_message({}, {<<"a">>}, {<<>>}) :
           HandleSave(u, p, NoMeta)
    \/ \E u \in ChatIds, p \in parse_message({}, {<<"a">>}, {<<>>}) :
           HandleDuplicate(u, p)
    \/ MinuteTick

SpecDup == Init /\ [][NextDup]_vars

\* Listing: one user saves a quote in a minute, up to MaxLastQuotes quotes,
\* and both users ask for the last n with integers of either sign.
NextLast ==
    \/ /\ nextId <= MaxLastQuotes
       /\ \A r \in quotes : r.created_at # SqlTimestamp(now)
       /\ \E p \in parse_message({}, {<<"a">>}, {<<>>}) : SaveQuote(1, p, NoMeta)
    \/ \E u \in ChatIds, arg \in LastArgsInt : last_command(u, arg)
    \/ Tick(1, StartTime + MaxLastQuotes)

SpecLast == InitUtc /\ [][NextLast]_vars

\* Selection: quotes are saved and shown while the days pass; the clock is
\* read at the start and 7, 30 and MaxDays days later, so that a quote is met
\* exactly 7 and exactly 30 days after it was shown, and more than 30 days.
ReadingDays == {RecentDays7, RecentDays30, MaxDays}

DayTick ==
    \E d \in ReadingDays :
        /\ StartTime + d * MinutesPerDay > now
        /\ Tick(StartTime + d * MinutesPerDay - now,
                StartTime + MaxDays * MinutesPerDay)

NextSelect ==
    \/ \E u \in ChatIds, p \in parse_message({}, {<<"a">>}, {<<>>}) :
           HandleSave(u, p, NoMeta)
    \/ CanShow(MaxShown) /\ \E u \in ChatIds : random_command(u)
    \/ CanShow(MaxShown) /\ \E u \in ChatIds : digest_command(u)
    \/ DayTick

SpecSelect == InitUtc /\ [][NextSelect]_vars

\* Concurrency: /random of a user and the two jobs of the scheduler, each a
\* SELECT and an UPDATE, interleaved at their awaits.
NextTasks ==
    \/ \E u \in ChatIds, p \in parse_message({}, {<<"a">>}, {<<>>}) :
           HandleSave(u, p, NoMeta)
    \/ CanShow(MaxTaskShown) /\ \E u \in ChatIds : RandomSelect(u)
    \/ \E t \in JobIds : JobStart(t)
    \/ CanShow(MaxTaskShown) /\ \E t \in JobIds : TaskSelect(t)
    \/ \E t \in TaskIds, sent \in BOOLEAN : TaskUpdate(t, sent)

SpecTasks == InitUtc /\ [][NextTasks]_vars

\* The jobs: users register, with and without quotes, and the weekly and the
\* daily job run over them; selecting for a user and sending to a user may
\* fail.
NextJobs ==
    \/ \E u \in ChatIds, p \in parse_message({}, {<<"a">>}, {<<>>}) :
           HandleSave(u, p, NoMeta)
    \/ \E u \in ChatIds, p \in parse_message({}, {<<"a">>}, {<<>>}) :
           HandleNoQuote(u, p)
    \/ \E t \in JobIds : JobStart(t)
    \/ CanShow(MaxJobShown) /\ \E t \in JobIds : TaskSelect(t)
    \/ \E t \in JobIds : TaskSelectFail(t)
    \/ \E t \in JobIds, sent \in BOOLEAN : TaskUpdate(t, sent)

SpecJobs == InitUtc /\ [][NextJobs]_vars

\* The counters of a quote: quotes are saved, marked as favorites and
\* deleted while /random and the two jobs show them.
NextShown ==
    \/ \E p \in parse_message({}, {<<"a">>}, {<<>>}) : HandleSave(1, p, NoMeta)
    \/ \E id \in StoreIds : fav_command(1, id)
    \/ \E u \in ChatIds, id \in StoreIds : delete_command(u, id)
    \/ CanShow(MaxStoreShown) /\ random_command(1)
    \/ JobStart("weekly")
    \/ CanShow(MaxStoreShown) /\ TaskSelect("weekly")
    \/ \E sent \in BOOLEAN : TaskUpdate("weekly", sent)

SpecShown == InitUtc /\ [][NextShown]_vars

\* Registration: calls of register_user for the same and for different chats,
\* one after the other and interleaved between the SELECT and the write.
NextReg ==
    \/ \E c \in CallIds, chat_id \in ChatIds, name \in UserNames :
           RegSelect(c, chat_id, name)
    \/ \E c \in CallIds : RegWrite(c)

SpecReg == InitUtc /\ [][NextReg]_vars

\* One chat sends two different links and quotes while the clock advances in
\* steps of more than half the time limit: two steps outlive a pending URL,
\* one does not.
TwoUrls == {"https://a.example", "https://b.example"}

NextPending ==
    \/ \E p \in parse_message(TwoUrls, {<<"a">>}, {<<>>}), m \in fetch_metadata :
           \/ HandleUrlOnly(1, p, m)
           \/ HandleNoQuote(1, p)
           \/ HandleSave(1, p, m)
    \/ Tick(PENDING_URL_TIMEOUT \div 2 + 1, StartTime + MaxMinutes)

SpecPending == InitUtc /\ [][NextPending]_vars

\* Quote-only messages of one chat handled as interleaved coroutines, between
\* URL-only messages.
NextInterleaved ==
    \/ \E p \in parse_message(Urls, {}, {<<>>}), m \in fetch_metadata :
           HandleUrlOnly(1, p, m)
    \/ \E c \in CallIds, p \in parse_message({}, Texts, {<<>>}) : MsgCheck(c, 1, p)
    \/ \E c \in CallIds : MsgTake(c)
    \/ \E c \in CallIds : MsgSave(c)

SpecInterleaved == InitUtc /\ [][NextInterleaved]_vars

\* Repetition: one chat saves its quotes and asks for /random again and
\* again while days pass. The calls keep coming: a call that can be made is
\* made in the end, whatever RANDOM() picks among equals.
RepeatRandom == CanShow(MaxFairShown) /\ random_command(1)

NextRepeat ==
    \/ \E p \in parse_message({}, {<<"a">>}, {<<>>}) : HandleSave(1, p, NoMeta)
    \/ RepeatRandom
    \/ DayTick

SpecRepeat == InitUtc /\ [][NextRepeat]_vars /\ WF_vars(RepeatRandom)

\* Formatting: format_quote applied to every row of FormatInputs.
NextFormat ==
    \E quote \in FormatInputs, show_id \in BOOLEAN : FormatQuote(quote, show_id)

SpecFormat == InitUtc /\ [][NextFormat]_vars

----------------------------------------------------------------------------
(* The message flow's properties, checked under Spec *)

\* minutes since the epoch of a timestamp SQLite printed
TsMinutes(ts) == ts[1] * MinutesPerDay + ts[3]

\* the step is handle_message saving a quote for u
SavedStep(u) ==
    /\ nextId' = nextId + 1
    /\ out'.op = "handle_message" /\ out'.user = u /\ out'.reply = "saved"

SavedRow == CHOOSE r \in quotes' : r.id = nextId

\* the last step saved a quote of a message without a URL of its own
SavedQuoteOnly ==
    /\ out.op = "handle_message" /\ out.reply = "saved"
    /\ out.kind = "quote_only"

\* C1: a quote-only message that follows a URL-only message of the same user
\* within 5 minutes, with no /cancel and no saved quote in between, is saved
\* with that URL and with the title, author and domain fetched with it.
C1_QuoteTakesPendingUrl ==
    [][\A u \in ChatIds :
          ( /\ hist[u].url # None
            /\ ~hist[u].cancelled /\ ~hist[u].used
            /\ now - hist[u].at <= PENDING_URL_TIMEOUT
            /\ SavedStep(u) /\ out'.kind = "quote_only" )
          => /\ SavedRow.url = hist[u].url
             /\ SavedRow.source_title = hist[u].metadata.title
             /\ SavedRow.source_author = hist[u].metadata.author
             /\ SavedRow.source_domain = hist[u].metadata.domain]_vars

\* a quote-only message was saved with the URL sent exactly 5 minutes before
C1_Witness ==
    /\ SavedQuoteOnly
    /\ hist[out.user].used /\ ~hist[out.user].cancelled
    /\ now - hist[out.user].at = PENDING_URL_TIMEOUT
    /\ Row(out.id).url = hist[out.user].url
    /\ Row(out.id).source_title # None

\* the last URL-only message of u is more than 5 minutes old, or was followed
\* by /cancel
Discarded(u) ==
    /\ hist[u].url # None
    /\ hist[u].cancelled \/ now - hist[u].at > PENDING_URL_TIMEOUT

\* C2: once a pending URL is more than 5 minutes old or /cancel was issued,
\* get_pending_url returns none until the next URL-only message, and a quote
\* saved from a message without a URL of its own carries no URL.
C2_DiscardedStaysDiscarded ==
    \A u \in ChatIds :
        Discarded(u) =>
            /\ get_pending_url(pending[u]).url = None
            /\ (SavedQuoteOnly /\ out.user = u) => Row(out.id).url = None

\* a quote-only message was saved after the pending URL had expired unread
C2_Witness ==
    /\ SavedQuoteOnly
    /\ Discarded(out.user) /\ ~hist[out.user].cancelled
    /\ nextId = 2
    /\ Row(out.id).url = None

\* C3 as stated: after any message with quote text the sender has no pending
\* URL left.
C3_ClearedAfterAnyQuote ==
    (out.op = "handle_message" /\ out.kind \in {"quote_only", "url_and_quote"})
        => pending[out.user].url = None

\* C3: after a message whose quote is saved, with or without a URL of its
\* own, the sender has no pending URL left.
C3_ClearedAfterSave ==
    (out.op = "handle_message" /\ out.reply = "saved")
        => pending[out.user].url = None

\* the first quote saved came with a URL of its own while a URL was pending
C3_Witness ==
    /\ out.op = "handle_message" /\ out.reply = "saved"
    /\ out.kind = "url_and_quote"
    /\ nextId = 2
    /\ hist[out.user].url # None /\ ~hist[out.user].cancelled
    /\ now - hist[out.user].at <= PENDING_URL_TIMEOUT
    /\ pending[out.user].url = None

----------------------------------------------------------------------------
(* Listing's property, checked under SpecLast *)

\* C11: /last n with an integer n, of either sign, replies with at most 10
\* quotes.
C11_LastAtMostCap ==
    out.op = "last" => Len(out.ids) <= LastCap

----------------------------------------------------------------------------
(* The duplicate window's property, checked under SpecDup *)

\* C10: is_duplicate is true right after the save and false once more than a
\* minute has passed since every save of that text; a message repeating a
\* quote saved less than a minute ago saves nothing.
C10_DuplicateWindow ==
    /\ (out.op = "handle_message" /\ out.reply = "saved")
           => is_duplicate(quotes, out.user, Row(out.id).text)
    /\ \A u \in ChatIds, t \in Texts :
           (\A r \in quotes :
               (r.user_id = u /\ r.text = t)
                   => now - TsMinutes(r.created_at) > DuplicateMinutes)
               => ~is_duplicate(quotes, u, t)
    /\ (out.op = "handle_message" /\ out.reply = "saved")
           => ~\E r \in quotes :
                  /\ r.id # out.id
                  /\ r.user_id = out.user /\ r.text = Row(out.id).text
                  /\ now - TsMinutes(r.created_at) < DuplicateMinutes

----------------------------------------------------------------------------
(* Selection's properties, checked under SpecSelect and SpecTasks *)

\* the step is a whole get_random_quotes call of /random or /digest
SelectionStep == out'.op \in {"random", "digest"}

ReturnedIds == { out'.ids[i] : i \in 1..Len(out'.ids) }

\* the row of the store with this id, before the step
RowOf(id) == CHOOSE r \in quotes : r.id = id

\* C4: get_random_quotes adds 1 to times_shown and sets last_shown to the
\* current time for every quote it returns, and leaves every other quote as
\* it was.
C4_MarksExactlyReturned ==
    [][SelectionStep =>
          /\ Cardinality(quotes') = Cardinality(quotes)
          /\ \A r \in quotes :
                IF r.id \in ReturnedIds
                THEN \E r2 \in quotes' :
                        /\ r2 = [r EXCEPT !.times_shown = r2.times_shown,
                                          !.last_shown = r2.last_shown]
                        /\ r2.times_shown = r.times_shown + 1
                        /\ TsMinutes(r2.last_shown) = now
                ELSE r \in quotes']_vars

\* /random showed a quote for the second time and left another quote of the
\* user, shown before, as it was
C4_Witness ==
    /\ out.op = "random" /\ Len(out.ids) = 1
    /\ Row(out.ids[1]).times_shown = 2
    /\ TsMinutes(Row(out.ids[1]).last_shown) = now
    /\ \E r \in OwnRows(quotes, out.user) :
          /\ r.id # out.ids[1] /\ r.times_shown = 1
          /\ TsMinutes(r.last_shown) < now

\* the bucket of a quote in the words of the specification
AgeBucket(r) ==
    IF r.last_shown = NullTs THEN 0
    ELSE LET age == now - TsMinutes(r.last_shown)
         IN  IF age > RecentDays30 * MinutesPerDay THEN 1
             ELSE IF age > RecentDays7 * MinutesPerDay THEN 2
             ELSE 3

\* a must come before b
Before(a, b) ==
    \/ AgeBucket(a) < AgeBucket(b)
    \/ AgeBucket(a) = AgeBucket(b) /\ a.times_shown < b.times_shown

\* C5: get_random_quotes(user, n) returns the first n of the user's quotes
\* in the order never shown, shown more than 30 days ago, more than 7 and at
\* most 30 days ago, within the last 7 days, and by ascending times_shown
\* inside a bucket; no shown quote is returned while a never-shown one is
\* left out.
C5_BucketOrder ==
    [][SelectionStep =>
          LET own == OwnRows(quotes, out'.user)
              res == out'.ids
          IN  /\ Len(res) = Min(out'.arg, Cardinality(own))
              /\ \A i \in 1..Len(res) : \E r \in own : r.id = res[i]
              /\ \A i, j \in 1..Len(res) :
                    i < j => /\ res[i] # res[j]
                             /\ ~Before(RowOf(res[j]), RowOf(res[i]))
              /\ \A r \in own :
                    r.id \notin ReturnedIds =>
                        \A i \in 1..Len(res) : ~Before(r, RowOf(res[i]))
              /\ (\E r \in own : r.last_shown = NullTs /\ r.id \notin ReturnedIds)
                    => \A i \in 1..Len(res) : RowOf(res[i]).last_shown = NullTs]_vars

\* /random returned the user's quote never shown before and passed over the
\* other one, shown twice, the last time exactly 30 days ago
C5_Witness ==
    /\ out.op = "random" /\ Len(out.ids) = 1
    /\ Row(out.ids[1]).times_shown = 1
    /\ TsMinutes(Row(out.ids[1]).last_shown) = now
    /\ \E r \in OwnRows(quotes, out.user) :
          /\ r.times_shown = 2
          /\ now - TsMinutes(r.last_shown) = RecentDays30 * MinutesPerDay

AllIdle == \A t \in TaskIds : tasks[t].pc = "idle"

\* C6: when every call has finished, times_shown of each quote has grown by
\* the number of calls that returned it.
C6_NoLostIncrement ==
    AllIdle => \A r \in quotes : r.times_shown = returned[r.id]

\* the call that finished last had read a quote as never shown, another call
\* showed it in between, and the quote counts both showings
C6_Witness ==
    /\ AllIdle
    /\ out.op \in TaskIds
    /\ \E i \in 1..Len(out.ids) :
          out.shown[i] = 0 /\ Row(out.ids[i]).times_shown = 2

\* C7: no two calls have read the same row of a user, with the same
\* times_shown, without one of them having written its increment.
C7_AtomicReadAndMark ==
    \A t1, t2 \in TaskIds :
        (t1 # t2 /\ tasks[t1].pc = "update" /\ tasks[t2].pc = "update")
            => ~\E i \in 1..Len(tasks[t1].rows), j \in 1..Len(tasks[t2].rows) :
                   tasks[t1].rows[i] = tasks[t2].rows[j]

----------------------------------------------------------------------------
(* The store's properties, checked under SpecStore *)

\* the quotes that are not u's
OtherRows(tbl, u) == { r \in tbl : r.user_id # u }

\* the step's output is one the same call gives on u's own rows alone
OwnRowsDecide(u) ==
    LET own == OwnRows(quotes, u)
    IN  CASE out'.op = "random" ->
                 \E q \in SelectRandom(own, u, out'.arg) :
                     /\ Ids(q) = out'.ids
                     /\ OwnRows(quotes', u) = MarkShown(own, q)
          [] out'.op = "last" ->
                 \E q \in get_last_quotes(own, u, out'.arg) : Ids(q) = out'.ids
          [] out'.op = "search" ->
                 \E k \in SearchWords :
                     \E q \in search_quotes(own, u, k) : Ids(q) = out'.ids
          [] out'.op = "export" ->
                 /\ \E q \in export_all_quotes(own, u) : Ids(q) = out'.ids
                 /\ out'.n = get_quote_count(own, u)
          [] out'.op = "fav" ->
                 /\ OwnRows(quotes', u) = toggle_favorite(own, u, out'.arg)
                 /\ (out'.reply = "not_found")
                        = (toggle_favorite_ret(own, u, out'.arg) = None)
          [] out'.op = "delete" /\ out'.reply # "invalid" ->
                 /\ OwnRows(quotes', u) = delete_quote(own, u, out'.arg)
                 /\ (out'.reply = "not_found")
                        = (get_quote_by_id(own, u, out'.arg) = {})
          [] out'.op = "handle_message" /\ out'.reply = "saved" ->
                 /\ OwnRows(quotes', u) \ own = {SavedRow}
                 /\ own \subseteq quotes'
          [] OTHER -> OwnRows(quotes', u) = own

\* C8: an operation of user u returns only quotes of u, changes only quotes
\* of u, and gives what it gives on u's quotes alone: the quotes of the
\* other users are neither read nor changed.
C8_OwnRowsOnly ==
    [][\A u \in ChatIds :
          out'.user = u =>
              /\ OtherRows(quotes', u) = OtherRows(quotes, u)
              /\ out'.op # "handle_message" =>
                     \A i \in 1..Len(out'.ids) :
                         \E r \in OwnRows(quotes, u) : r.id = out'.ids[i]
              /\ OwnRowsDecide(u)]_vars

\* /fav with the id of another user's quote found nothing and left the
\* quote, a favorite of its owner, as it was
C8_Witness ==
    /\ out.op = "fav" /\ out.reply = "not_found"
    /\ \E r \in quotes :
          r.id = out.arg /\ r.user_id # out.user /\ r.is_favorite = 1

\* C9: /delete with an id that is no quote of the caller replies "not
\* found" and leaves the store as it was; delete_quote returns true exactly
\* when a quote with that id owned by the caller exists, which it removes,
\* and false, removing nothing, otherwise.
C9_DeleteOnlyOwn ==
    [][/\ (out'.op = "delete" /\ out'.reply # "invalid") =>
              LET owned == { r \in quotes :
                               r.id = out'.arg /\ r.user_id = out'.user }
              IN  IF owned = {}
                  THEN out'.reply = "not_found" /\ quotes' = quotes
                  ELSE out'.reply = "deleted" /\ quotes' = quotes \ owned
       /\ \A u \in ChatIds, id \in StoreIds :
              LET owned == { r \in quotes : r.id = id /\ r.user_id = u }
              IN  /\ delete_quote_ret(quotes, u, id) = (owned # {})
                  /\ delete_quote(quotes, u, id) = quotes \ owned]_vars

\* /delete with the id of another user's quote replied "not found" and the
\* quote is still in the store
C9_Witness ==
    /\ out.op = "delete" /\ out.reply = "not_found"
    /\ \E r \in quotes : r.id = out.arg /\ r.user_id # out.user

----------------------------------------------------------------------------
(* The jobs' property, checked under SpecJobs *)

\* the users of a list
Members(q) == { q[i] : i \in 1..Len(q) }

\* C12: a run of a job reads the opted-in users and deals with each of them
\* once; when selecting for a user or sending to a user fails, the job goes
\* on with the users after it, and it ends having dealt with every user it
\* read.
C12_BatchGoesOn ==
    [][\A t \in JobIds :
          /\ (tasks[t].pc = "idle" /\ tasks'[t].pc # "idle") =>
                 /\ tasks'[t].batch = JobUsers(t)
                 /\ Members(tasks'[t].todo) = tasks'[t].batch
                 /\ Len(tasks'[t].todo) = Cardinality(tasks'[t].batch)
          /\ (tasks[t].pc # "idle" /\ out'.op = t) =>
                 /\ out'.user \in tasks[t].batch \ tasks[t].done
                 /\ IF tasks[t].done \cup {out'.user} = tasks[t].batch
                    THEN tasks'[t].pc = "idle"
                    ELSE /\ tasks'[t].pc = "select"
                         /\ tasks'[t].batch = tasks[t].batch
                         /\ tasks'[t].done = tasks[t].done \cup {out'.user}
                         /\ Members(tasks'[t].todo)
                                = tasks[t].batch \ tasks'[t].done]_vars

\* sending to the first user of a batch failed, and the job stands at the
\* selection for the second
C12_Witness ==
    /\ out.op \in JobIds /\ out.reply = "failed"
    /\ out.ids # <<>>
    /\ tasks[out.op].pc = "select"
    /\ tasks[out.op].done = {out.user}
    /\ Cardinality(tasks[out.op].batch) = 2

----------------------------------------------------------------------------
(* The counters' property, checked under SpecShown *)

\* the step showed quote r to its owner
ShownBy(r) ==
    /\ out'.op \in {"random", "digest"} \cup TaskIds
    /\ out'.user = r.user_id
    /\ \E i \in 1..Len(out'.ids) : out'.ids[i] = r.id

\* C13: times_shown and last_shown of a quote change only together and only
\* in a step that shows the quote to its owner; saving, marking, deleting
\* and registering leave them alone, a new quote has neither, and a quote
\* has no last_shown exactly when its times_shown is 0.
C13_ShownTogether ==
    [][/\ \A r \in quotes' : (r.last_shown = NullTs) = (r.times_shown = 0)
       /\ \A r \in quotes' :
              (\A r1 \in quotes : r1.id # r.id) => r.times_shown = 0
       /\ \A r1 \in quotes, r2 \in quotes' :
              r1.id = r2.id =>
                  IF ShownBy(r1)
                  THEN /\ r2.times_shown = r1.times_shown + 1
                       /\ r2.last_shown = SqlTimestamp(now)
                  ELSE /\ r2.times_shown = r1.times_shown
                       /\ r2.last_shown = r1.last_shown]_vars

\* a quote already shown once was made a favorite, and still counts one
\* showing
C13_Witness ==
    /\ out.op = "fav" /\ out.reply = "added"
    /\ Row(out.arg).times_shown = 1
    /\ Row(out.arg).last_shown # NullTs

----------------------------------------------------------------------------
(* Registration's property, checked under SpecReg *)

UsersOf(tbl, chat_id) == { r \in tbl : r.chat_id = chat_id }

\* C14: there is one users row per registered chat id; a call of
\* register_user returns True only when the chat had no row and the call
\* inserted it; a call made once the chat has its row returns False and
\* changes just the two names of that row.
C14_RegisterOnce ==
    [][/\ \A r1, r2 \in users' : r1.chat_id = r2.chat_id => r1 = r2
       /\ out'.op = "register_user" =>
            LET c == out'.user
            IN  /\ Cardinality(UsersOf(users', c)) = 1
                /\ \A r \in users : r.chat_id # c => r \in users'
                /\ out'.reply = "True" =>
                       /\ UsersOf(users, c) = {}
                       /\ users' = users \cup {UserRow(c, out'.name, out'.name)}
                /\ out'.saw =>
                       /\ out'.reply = "False"
                       /\ \E r \in UsersOf(users, c) :
                              users' = (users \ {r}) \cup
                                  {[r EXCEPT !.username = out'.name,
                                             !.first_name = out'.name]}]_vars

\* a call for a chat registered as ann returns False and renames it bob,
\* while another call for the same chat is between its SELECT and its write
C14_Witness ==
    /\ out.op = "register_user" /\ out.reply = "False" /\ out.name = "bob"
    /\ \E c \in CallIds : /\ calls[c].pc = "selected"
                           /\ calls[c].chat_id = out.user
                           /\ calls[c].name = "ann"
    /\ \E r \in users : r.chat_id = out.user /\ r.username = "bob"

----------------------------------------------------------------------------
(* The favorite flag's property, checked under SpecStore *)

FlagText(flag) == IF flag # 0 THEN "True" ELSE "False"

\* C15: toggle_favorite on a quote that does not exist or belongs to another
\* user returns None and leaves the table as it is; on a quote of the caller
\* it changes the flag and returns the new flag, and applied once more it
\* returns the original flag and gives back the table it started from.
C15_ToggleTwice ==
    [][out'.op = "fav" =>
        LET u == out'.user
            id == out'.arg
            own == FavoriteRows(quotes, u, id)
        IN  IF own = {}
            THEN /\ toggle_favorite_ret(quotes, u, id) = None
                 /\ out'.reply = "not_found"
                 /\ quotes' = quotes
            ELSE \A r \in own : \E r2 \in FavoriteRows(quotes', u, id) :
                    /\ r2.is_favorite # r.is_favorite
                    /\ toggle_favorite_ret(quotes, u, id) = FlagText(r2.is_favorite)
                    /\ out'.reply = IF r2.is_favorite # 0 THEN "added"
                                    ELSE "removed"
                    /\ toggle_favorite_ret(quotes', u, id) = FlagText(r.is_favorite)
                    /\ toggle_favorite(quotes', u, id) = quotes]_vars

\* the owner has toggled a quote on and off again
C15_Witness ==
    /\ out.op = "fav" /\ out.reply = "removed"
    /\ \E r \in quotes : /\ r.id = out.arg /\ r.user_id = out.user
                          /\ r.is_favorite = 0

----------------------------------------------------------------------------
(* The pending URL's property, checked under SpecPending *)

\* C16: the one pending entry of a chat is that of its latest URL-only
\* message: URL, metadata and capture time are replaced together. A
\* quote-only message saved while an entry is held and the latest URL-only
\* message is at most 5 minutes old takes that message's URL and metadata,
\* and takes none otherwise.
C16_LatestUrlPending ==
    [][\A u \in ChatIds :
          /\ pending'[u].url # None =>
                 pending'[u] = [url |-> hist'[u].url,
                                metadata |-> hist'[u].metadata,
                                timestamp |-> hist'[u].at + tz]
          /\ ( /\ out'.op = "handle_message" /\ out'.user = u
               /\ out'.kind = "url_only" )
             => /\ pending'[u].url # None
                /\ hist'[u].at = now
          /\ (SavedStep(u) /\ out'.kind = "quote_only") =>
                 IF pending[u].url # None
                    /\ now - hist[u].at <= PENDING_URL_TIMEOUT
                 THEN /\ SavedRow.url = hist[u].url
                      /\ SavedRow.source_title = hist[u].metadata.title
                      /\ SavedRow.source_author = hist[u].metadata.author
                      /\ SavedRow.source_domain = hist[u].metadata.domain
                 ELSE SavedRow.url = None]_vars

\* a second link came while the first was pending and replaced it with its
\* metadata and its own, later capture time
C16_Witness ==
    /\ out.op = "handle_message" /\ out.kind = "url_only"
    /\ out.replaced = "https://a.example"
    /\ pending[out.user].url = "https://b.example"
    /\ pending[out.user].metadata = NoMeta
    /\ pending[out.user].timestamp = LocalNow
    /\ now > StartTime

----------------------------------------------------------------------------
(* format_quote's property, checked under SpecFormat *)

\* the source lines of a formatted quote
SourceLines(text) ==
    { i \in 1..Len(text) : text[i] # <<>> /\ text[i][1] = "--" }

\* C17: format_quote emits one source line when the row has a title, an
\* author or a domain, and none otherwise; after the dashes the line holds
\* the title if there is one, then "by" and the author if there is one,
\* and the domain in brackets only when there is a domain and no author.
C17_SourceLine ==
    out.op = "format_quote" =>
        LET q == out.quote
            title == IF Truthy(q.source_title) THEN <<q.source_title>> ELSE <<>>
        IN  IF \/ Truthy(q.source_title) \/ Truthy(q.source_author)
               \/ Truthy(q.source_domain)
            THEN /\ Cardinality(SourceLines(out.text)) = 1
                 /\ \A i \in SourceLines(out.text) :
                       out.text[i] =
                           IF Truthy(q.source_author)
                           THEN <<"--">> \o title \o <<"by", q.source_author>>
                           ELSE IF Truthy(q.source_domain)
                           THEN <<"--">> \o title \o <<"(", q.source_domain, ")">>
                           ELSE <<"--">> \o title
            ELSE SourceLines(out.text) = {}

\* a row with title, author and domain is formatted: the line names the
\* author and leaves the domain out
C17_Witness ==
    /\ out.op = "format_quote"
    /\ out.quote.source_title = "Title" /\ out.quote.source_author = "Author"
    /\ out.quote.source_domain = "a.example"
    /\ \E i \in 1..Len(out.text) :
          out.text[i] = <<"--", "Title", "by", "Author">>

----------------------------------------------------------------------------
(* The interleaved messages' property, checked under SpecInterleaved *)

\* C18: a quote-only message takes the pending URL only if no quote-only
\* message has taken it since the last URL-only message, and then takes
\* that message's URL and metadata; taking leaves no pending URL behind, so
\* every later quote-only message is saved without a URL until a new URL
\* is sent; the quote is saved with what its own message took. This holds
\* for messages handled one after the other and as interleaved tasks.
C18_UrlUsedOnce ==
    [][/\ \A u \in ChatIds : hist'[u].used => pending'[u].url = None
       /\ \A c \in CallIds :
            /\ (calls[c].pc = "checked" /\ calls'[c].pc = "saving") =>
                  LET u == calls[c].user
                  IN  IF hist[u].url # None /\ ~hist[u].used
                      THEN /\ calls'[c].url = hist[u].url
                           /\ calls'[c].metadata = hist[u].metadata
                           /\ hist'[u].used
                      ELSE calls'[c].url = None
            /\ (calls[c].pc = "saving" /\ calls'[c].pc = "idle") =>
                  \E r \in quotes' \ quotes :
                      /\ r.id = nextId /\ r.user_id = calls[c].user
                      /\ r.url = calls[c].url
                      /\ r.source_title = calls[c].metadata.title]_vars

\* two quote-only messages of a chat are in flight after one URL-only
\* message: the first took the URL and is not saved yet, the second has
\* just looked and found none
C18_Witness ==
    /\ out.op = "msg_take" /\ out.url = None
    /\ hist[out.user].url # None
    /\ \E c \in CallIds :
          /\ c # out.call
          /\ calls[c].pc = "saving" /\ calls[c].user = out.user
          /\ calls[c].url = hist[out.user].url

----------------------------------------------------------------------------
(* Repetition's property, checked under SpecRepeat *)

\* the chat's set of quotes is complete: nothing more is saved
FixedSet == nextId > MaxQuotes

RECURSIVE Ahead(_, _)
\* how many calls can return other quotes before r: every other quote once
\* while its bucket or its counter puts it first, and once more for every
\* showing it is behind r
Ahead(r, others) ==
    IF others = {} THEN 0
    ELSE LET o == CHOOSE x \in others : TRUE
         IN  1 + (IF r.times_shown > o.times_shown
                  THEN r.times_shown - o.times_shown ELSE 0)
             + Ahead(r, others \ {o})

\* the showings left before the cap are enough for r's turn to come
RoomFor(r) ==
    TotalShown(quotes) + Ahead(r, OwnRows(quotes, r.user_id) \ {r}) + 1
        <= MaxFairShown

\* C19: once the chat's set of quotes is fixed, repeated get_random_quotes
\* (user, 1) calls return every quote again: a quote shown k times is
\* returned once more, however RANDOM() breaks the ties and whatever days
\* pass between the calls.
C19_NoStarvation ==
    \A id \in 1..MaxQuotes, k \in 0..MaxFairShown :
        ( /\ FixedSet
          /\ \E r \in quotes : r.id = id /\ r.times_shown = k /\ RoomFor(r) )
        ~> (\E r \in quotes : r.id = id /\ r.times_shown > k)

\* with the set fixed, /random has returned a quote for the second time
\* after every quote of the chat had been shown
C19_Witness ==
    /\ FixedSet
    /\ out.op = "random" /\ out.ids # <<>>
    /\ Row(out.ids[1]).times_shown >= 2
    /\ \A r \in OwnRows(quotes, out.user) : r.times_shown >= 1

====
